---- MODULE Spec2Model ----
(***************************************************************************)
(* Model of the retrieval and answer-synthesis engine of the repository:   *)
(* EnhancedRAGPipeline of actions/rag_pipeline.py (FAISS index, documents, *)
(* metadata, the two persisted files, ingestion, search, answer            *)
(* generation) and its driver setup_knowledge_base.py.                     *)
(*                                                                         *)
(* Conventions.                                                            *)
(*  - A text is the sequence of its whitespace-delimited words; a word is  *)
(*    represented by its number of characters (vocabulary "a", "bb").      *)
(*  - A vector is represented by its direction (0 or 1); the inner product *)
(*    of two unit vectors is given in tenths by IP.                        *)
(*  - Python positions are 0-based, TLA+ sequences 1-based: position idx   *)
(*    of the code is element idx + 1 of the sequence.                      *)
(***************************************************************************)
EXTENDS Integers, Sequences, FiniteSets, TLC

VARIABLES
    pc,         \* position of the process: "idle" (constructed, no call in
                \* flight), "loop", "save_index", "writing_index", "save_meta",
                \* "writing_meta" (inside add_documents), "down" (process not
                \* running), "aborted" (constructor raised)
    index,      \* self.index: [d |-> dimension, xb |-> sequence of vectors]
    documents,  \* self.documents
    metadata,   \* self.metadata
    indexFile,  \* vector_db/faiss_index.index
    metaFile,   \* vector_db/faiss_metadata.pkl
    call,       \* locals of the add_documents call in flight
    last,       \* the last search_similar call and what it returned
    lastOp,     \* which operation returned last: "init" (the constructor),
                \* "add", "search"; "none" while a call is in flight
    faissTies,  \* how this build of FAISS orders equal scores
    lastSaved,  \* history: in-memory state at the last completed save
    gen,        \* a generate_response call: its arguments, what the generator
                \* did and what the call returned
    other,      \* a second thread of the process that uses the same pipeline
                \* object: its position and the locals of its call, while the
                \* thread of pc and call is the one that runs
    chunker,    \* a chunk_text call: its arguments and what it returned
    cppPc,      \* "up" while the process of the C++ assistant runs, else "down"
    pdfDir,     \* the directory documents/uploaded_pdfs
    jsonCache,  \* the file documents/processed_documents.json
    pdf_documents,  \* pdf_processor.documents
    cpp_contents,   \* CppRAGSystem.cpp_contents
    all_documents,  \* CppRAGSystem.all_documents
    cppIndex,       \* CppRAGSystem.index
    cppLast     \* the last call on the assistant or its PDFProcessor, and
                \* what it returned

\* the pipeline object, its files and its calls
pipelineVars == <<pc, index, documents, metadata, indexFile, metaFile, call,
                  last, lastOp, faissTies, lastSaved>>

\* the C++ assistant of actions.py, its PDFProcessor and their files
cppVars == <<cppPc, pdfDir, jsonCache, pdf_documents, cpp_contents,
             all_documents, cppIndex, cppLast>>

\* what the actions on the pipeline's index and files leave alone
nonPipelineVars == <<gen, other, chunker, cppVars>>

vars == <<pc, index, documents, metadata, indexFile, metaFile, call, last,
          lastOp, faissTies, lastSaved, gen, other, chunker, cppPc, pdfDir,
          jsonCache, pdf_documents, cpp_contents, all_documents, cppIndex,
          cppLast>>

----------------------------------------------------------------------------
(* Bounds *)

\* longest text, in words, and largest chunk_size passed to chunk_text
MaxWords == 12
MaxChunkSize == 5

\* the interpreter switches threads at most this many times
MaxSwitches == 2

\* add_documents is not started once this many documents are stored, or more
\* vectors than this
MaxVectors == 2

\* largest n_results passed to search_similar
MaxK == 3

----------------------------------------------------------------------------
(* Program constants *)

embedding_dim == 384
chunk_size_default == 300
chunk_overlap_default == 50
min_chunk_chars == 50

----------------------------------------------------------------------------
(* Sequences helpers *)

Min(a, b) == IF a < b THEN a ELSE b

\* the sum of the elements of s, by halves
RECURSIVE SumSeq(_)
SumSeq(s) ==
    IF s = <<>> THEN 0
    ELSE IF Len(s) = 1 THEN s[1]
    ELSE LET h == Len(s) \div 2
         IN  SumSeq(SubSeq(s, 1, h)) + SumSeq(SubSeq(s, h + 1, Len(s)))

\* len(' '.join(words)): the characters of the words and one space between
JoinedLen(words) ==
    IF words = <<>> THEN 0 ELSE SumSeq(words) + Len(words) - 1

\* words[i:j] of Python (0-based, end exclusive, clipped to the length)
Slice(words, i, j) == SubSeq(words, i + 1, Min(j, Len(words)))

----------------------------------------------------------------------------
(* The documents directory *)

Paths == {"a.txt", "b.pdf", "c.docx", "e.txt", "n.md"}

Supported(path) == path \in {"a.txt", "b.pdf", "c.docx", "e.txt"}

\* the words of the text extracted from each file
FileWords(path) ==
    CASE path = "a.txt"  -> [j \in 1..301 |-> 1]          \* 2 chunks
      [] path = "b.pdf"  -> [j \in 1..26 |-> 1]           \* 51 characters
      [] path = "c.docx" -> [j \in 1..25 |-> IF j = 25 THEN 2 ELSE 1]  \* 50
      [] OTHER           -> <<>>                          \* blank text

\* text of add_documents after the if/elif chain: "" for an unsupported type
ExtractText(path) == IF Supported(path) THEN FileWords(path) ELSE <<>>

----------------------------------------------------------------------------
(* chunk_text *)

\* the loop of lines 130-134 without its break
RECURSIVE ChunkFromNoBreak(_, _, _, _)
ChunkFromNoBreak(words, i, chunk_size, chunk_overlap) ==
    IF i >= Len(words) THEN <<>>
    ELSE <<Slice(words, i, i + chunk_size)>>
         \o ChunkFromNoBreak(words, i + (chunk_size - chunk_overlap),
                             chunk_size, chunk_overlap)

\* lines 130-134: the loop from position i on
RECURSIVE ChunkFrom(_, _, _, _)
ChunkFrom(words, i, chunk_size, chunk_overlap) ==
    IF i >= Len(words) THEN <<>>
    ELSE LET chunk == Slice(words, i, i + chunk_size)
         IN  IF i + chunk_size >= Len(words)
             THEN <<chunk>>
             ELSE <<chunk>> \o ChunkFrom(words, i + (chunk_size - chunk_overlap),
                                        chunk_size, chunk_overlap)

chunk_text(words, chunk_size, chunk_overlap) ==
    ChunkFrom(words, 0, chunk_size, chunk_overlap)

----------------------------------------------------------------------------
(* The FAISS index (IndexFlatIP) *)

Dirs == {0, 1}

\* inner product of two unit vectors, in tenths
IP(a, b) == IF a = b THEN 9 ELSE 5

\* score FAISS reports for a slot it could not fill
NoScore == 0 - 1000

\* origin is history: for each vector, the chunk it was made from and its
\* dimension
NewIndex(d) == [d |-> d, xb |-> <<>>, origin |-> <<>>]
NoIndex == [d |-> 0, xb |-> <<>>, origin |-> <<>>]

\* position p ranks before position r for query direction q.  FAISS keeps
\* the k best in a heap and does not document the order of equal scores: it
\* is fixed for one build (faissTies) and differs between builds.
RanksBefore(xb, q, p, r, ties) ==
    \/ IP(q, xb[p]) > IP(q, xb[r])
    \/ /\ IP(q, xb[p]) = IP(q, xb[r])
       /\ IF ties = "asc" THEN p < r ELSE p > r

RECURSIVE TopFrom(_, _, _, _, _)
TopFrom(xb, q, S, k, ties) ==
    IF k = 0 THEN <<>>
    ELSE IF S = {} THEN <<[idx |-> -1, score |-> NoScore]>>
                        \o TopFrom(xb, q, S, k - 1, ties)
    ELSE LET p == CHOOSE x \in S :
                     \A r \in S \ {x} : RanksBefore(xb, q, x, r, ties)
         IN  <<[idx |-> p - 1, score |-> IP(q, xb[p])]>>
             \o TopFrom(xb, q, S \ {p}, k - 1, ties)

\* index.search(query, k): k (label, score) pairs, best first, padded with -1
IndexSearch(idx, q, k, ties) == TopFrom(idx.xb, q, DOMAIN idx.xb, k, ties)

----------------------------------------------------------------------------
(* The embedding model *)

\* what encode + index.add can do with one chunk: encode raises, or returns
\* a vector of the index's dimension, or one of another dimension, which
\* index.add rejects by raising
EmbedOutcomes ==
    {[raises |-> TRUE, dim |-> 0],
     [raises |-> FALSE, dim |-> embedding_dim],
     [raises |-> FALSE, dim |-> 2 * embedding_dim]}

\* the direction of the embedding of a chunk (encode is deterministic): one
\* for the full chunks, the other for the shorter ones
EncodeChunk(chunk) == IF Len(chunk) = chunk_size_default THEN 0 ELSE 1

Queries == {"", "q1"}

\* the direction of the embedding of a query (encode is deterministic)
EncodeQuery(q) == IF q = "q1" THEN 1 ELSE 0

----------------------------------------------------------------------------
(* State of a process that is not running, and of a call not in flight *)

NoGen == [phase |-> "none", query |-> <<>>, context |-> <<>>,
          outcome |-> [kind |-> "none", body |-> <<>>], raw |-> <<>>,
          branch |-> "none", kept |-> <<>>,
          answer |-> <<>>, calls |-> 0, path |-> "none"]

\* dup, base, outs and saves are history: whether the path had been ingested
\* when the call began, how many vectors the index held then, what became of
\* each chunk of the loop so far ("short", "raised" by encode, "rejected" by
\* index.add, "stored"), and how often the call has begun a save
NoCall == [file |-> "", i |-> 0, new_documents |-> <<>>, new_metadata |-> <<>>,
           dup |-> FALSE, base |-> 0, outs |-> <<>>, saves |-> 0]

\* seen and during are history: the three counts at the time of the search,
\* and whether the other thread was inside add_documents then
NoSearch == [query |-> "", k |-> 0, raised |-> FALSE, indices |-> <<>>,
             results |-> <<>>,
             seen |-> [ntotal |-> 0, documents |-> 0, metadata |-> 0],
             during |-> FALSE]

\* no chunk_text call
NoChunking == [phase |-> "none", words |-> <<>>, chunk_size |-> 0,
               chunk_overlap |-> 0, chunks |-> <<>>]

\* documents/uploaded_pdfs does not exist
NoDir == [exists |-> FALSE, files |-> {}]

\* documents/processed_documents.json does not exist
NoCache == [st |-> "absent", documents |-> <<>>]

\* CppRAGSystem.index is None
NoCppIndex == [none |-> TRUE, d |-> 0, xb |-> <<>>]

\* no call on the assistant.  handlers, handled, again, before and ran are
\* history: the handlers that ran, the files process_pdf_directory passed to
\* process_single_pdf, whether it ran over the directory as its run before
\* had left it with no clear_documents since, the documents and the cache
\* when the call began, and the directory as the last run since the last
\* clear_documents left it
NoCppLast == [op |-> "none", input |-> <<>>, handlers |-> <<>>, top_k |-> 0,
              results |-> <<>>, returned |-> <<>>, handled |-> {},
              again |-> FALSE,
              before |-> [documents |-> <<>>, cache |-> NoCache,
                          cpp_contents |-> <<>>, all_documents |-> <<>>,
                          index |-> NoCppIndex],
              ran |-> [valid |-> FALSE, dir |-> NoDir]]

\* no process of the assistant
CppDown ==
    /\ cppPc = "down"
    /\ pdfDir = NoDir
    /\ jsonCache = NoCache
    /\ pdf_documents = <<>>
    /\ cpp_contents = <<>>
    /\ all_documents = <<>>
    /\ cppIndex = NoCppIndex
    /\ cppLast = NoCppLast

\* a thread that is in no call; switches counts the context switches so far
NoThread == [pc |-> "idle", call |-> NoCall, switches |-> 0]

NoFile == [st |-> "absent", index |-> NoIndex, documents |-> <<>>,
           metadata |-> <<>>]

\* a file opened for writing and not completely written
PartialFile == [NoFile EXCEPT !.st = "partial"]

NothingSaved == [valid |-> FALSE, index |-> NoIndex, documents |-> <<>>,
                 metadata |-> <<>>]

\* the source paths that have entries in the metadata
Sources(md) == {md[j].source : j \in DOMAIN md}

\* chunks of the call in flight (add_documents line 162)
CallChunks == chunk_text(ExtractText(call.file), chunk_size_default,
                         chunk_overlap_default)

----------------------------------------------------------------------------
(* __init__ / _setup_faiss_index *)

\* os.path.exists of both files
BothExist == indexFile.st # "absent" /\ metaFile.st # "absent"

\* faiss.read_index or pickle.load raises on a file that is not whole
LoadRaises == indexFile.st = "partial" \/ metaFile.st = "partial"

Init ==
    /\ pc = "idle"
    /\ index = NewIndex(embedding_dim)
    /\ documents = <<>>
    /\ metadata = <<>>
    /\ indexFile = NoFile
    /\ metaFile = NoFile
    /\ call = NoCall
    /\ last = NoSearch
    /\ lastOp = "init"
    /\ faissTies \in {"asc", "desc"}
    /\ lastSaved = NothingSaved
    /\ gen = NoGen
    /\ other = NoThread
    /\ chunker = NoChunking
    /\ CppDown

\* A process starts: the module-level EnhancedRAGPipeline() runs
\* _setup_faiss_index.  An exception of read_index or pickle.load is not
\* caught and ends the import.
SetupFaissIndex ==
    /\ UNCHANGED nonPipelineVars
    /\ pc = "down"
    /\ lastOp' = "init"
    /\ IF BothExist
       THEN IF LoadRaises
            THEN /\ pc' = "aborted"
                 /\ UNCHANGED <<index, documents, metadata>>
            ELSE /\ pc' = "idle"
                 /\ index' = indexFile.index
                 /\ documents' = metaFile.documents
                 /\ metadata' = metaFile.metadata
       ELSE /\ pc' = "idle"
            /\ index' = NewIndex(embedding_dim)
            /\ documents' = <<>>
            /\ metadata' = <<>>
    /\ UNCHANGED <<indexFile, metaFile, call, last, faissTies, lastSaved>>

\* The process ends (the setup script finishes, the server is stopped or
\* killed): everything in memory is lost, the files stay as they are.
Crash ==
    /\ UNCHANGED nonPipelineVars
    /\ pc \notin {"down", "aborted"}
    /\ pc' = "down"
    /\ index' = NoIndex
    /\ documents' = <<>>
    /\ metadata' = <<>>
    /\ call' = NoCall
    /\ last' = NoSearch
    /\ lastOp' = "none"
    /\ UNCHANGED <<indexFile, metaFile, faissTies, lastSaved>>

----------------------------------------------------------------------------
(* add_documents *)

\* lines 138-164: read the file, return if it has no text, chunk it
AddDocuments(path) ==
    /\ UNCHANGED nonPipelineVars
    /\ pc = "idle"
    /\ Len(documents) < MaxVectors
    /\ Len(index.xb) <= MaxVectors
    /\ last' = NoSearch
    /\ IF ExtractText(path) = <<>>
       THEN /\ lastOp' = "add"
            /\ UNCHANGED <<pc, call>>
       ELSE /\ pc' = "loop"
            /\ lastOp' = "none"
            /\ call' = [file |-> path, i |-> 0, new_documents |-> <<>>,
                        new_metadata |-> <<>>,
                        dup |-> path \in Sources(metadata),
                        base |-> Len(index.xb),
                        outs |-> <<>>,
                        saves |-> 0]
    /\ UNCHANGED <<index, documents, metadata, indexFile, metaFile, faissTies,
                   lastSaved>>

\* an index.add that takes a vector of any dimension
IndexAcceptsAny(idx, out) == TRUE

\* index.add(embedding) raises unless the vector has the index's dimension
IndexAccepts(idx, out) == out.dim = idx.d

\* index.add(embedding) of a vector the index accepts
IndexAdd(idx, out, path, i, chunk) ==
    [idx EXCEPT !.xb = Append(idx.xb, EncodeChunk(chunk)),
                !.origin = Append(idx.origin,
                              [source |-> path, chunk_id |-> i,
                               chars |-> JoinedLen(chunk), dim |-> out.dim])]

\* a loop that is left at the first chunk that fails (break for continue)
AfterSkippedLeaveLoop(i, n) == n

\* line 181: continue, the loop goes on with the chunk after chunk i
AfterSkipped(i, n) == i + 1

\* the record appended to new_metadata (lines 175-179)
ChunkMetadata(path, i) ==
    [source |-> path, chunk_id |-> i,
     original_length |-> JoinedLen(ExtractText(path))]

\* line 167 with >= in the place of >
LongEnoughInclusive(chunk) == JoinedLen(chunk) >= min_chunk_chars

\* lines 167: the chunks that are embedded
LongEnough(chunk) == JoinedLen(chunk) > min_chunk_chars

\* lines 166-167: an iteration of the loop over a chunk that is too short
SkipShortChunk ==
    /\ UNCHANGED nonPipelineVars
    /\ pc = "loop"
    /\ call.i < Len(CallChunks)
    /\ ~LongEnough(CallChunks[call.i + 1])
    /\ call' = [call EXCEPT !.i = call.i + 1,
                            !.outs = Append(call.outs, "short")]
    /\ UNCHANGED <<pc, index, documents, metadata, indexFile, metaFile, last,
                   lastOp, faissTies, lastSaved>>

\* lines 166-181: an iteration of the loop over a chunk that is embedded
EmbedChunk(out) ==
    /\ UNCHANGED nonPipelineVars
    /\ pc = "loop"
    /\ call.i < Len(CallChunks)
    /\ LET chunk == CallChunks[call.i + 1]
       IN  /\ LongEnough(chunk)
           /\ IF ~out.raises /\ IndexAccepts(index, out)
              THEN /\ index' = IndexAdd(index, out, call.file, call.i, chunk)
                   /\ call' = [call EXCEPT
                          !.i = call.i + 1,
                          !.outs = Append(call.outs, "stored"),
                          !.new_documents = Append(call.new_documents, chunk),
                          !.new_metadata =
                              Append(call.new_metadata,
                                     ChunkMetadata(call.file, call.i))]
              ELSE /\ call' = [call EXCEPT
                          !.i = AfterSkipped(call.i, Len(CallChunks)),
                          !.outs = Append(call.outs,
                                          IF out.raises THEN "raised"
                                                        ELSE "rejected")]
                   /\ UNCHANGED index
    /\ UNCHANGED <<pc, documents, metadata, indexFile, metaFile, last, lastOp,
                   faissTies, lastSaved>>

\* lines 183-185: after the loop, extend documents and metadata, or return
EndLoop ==
    /\ UNCHANGED nonPipelineVars
    /\ pc = "loop"
    /\ call.i = Len(CallChunks)
    /\ IF call.new_documents # <<>>
       THEN /\ documents' = documents \o call.new_documents
            /\ metadata' = metadata \o call.new_metadata
            /\ pc' = "save_index"
            /\ UNCHANGED <<call, lastOp>>
       ELSE /\ pc' = "idle"
            /\ lastOp' = "add"
            /\ call' = NoCall
            /\ UNCHANGED <<documents, metadata>>
    /\ UNCHANGED <<index, indexFile, metaFile, last, faissTies, lastSaved>>

----------------------------------------------------------------------------
(* _save_faiss_index *)

\* an index file written before the last vector was added
WrittenIndexStale(idx) ==
    [NoFile EXCEPT !.st = "ok",
                   !.index = [idx EXCEPT
                                 !.xb = SubSeq(idx.xb, 1, Len(idx.xb) - 1),
                                 !.origin = SubSeq(idx.origin, 1,
                                                   Len(idx.origin) - 1)]]

\* what faiss.write_index leaves in the index file
WrittenIndex(idx) == [NoFile EXCEPT !.st = "ok", !.index = idx]

\* mutant of WrittenMeta: the documents pickled without the last one
WrittenMetaStale(docs, md) ==
    [NoFile EXCEPT !.st = "ok",
                   !.documents = SubSeq(docs, 1, Len(docs) - 1),
                   !.metadata = md]

\* what pickle.dump leaves in the metadata file
WrittenMeta(docs, md) ==
    [NoFile EXCEPT !.st = "ok", !.documents = docs, !.metadata = md]

\* line 118: write_index opens the index file, truncating it
WriteIndexOpen ==
    /\ UNCHANGED nonPipelineVars
    /\ pc = "save_index"
    /\ pc' = "writing_index"
    /\ indexFile' = PartialFile
    /\ lastSaved' = NothingSaved
    /\ call' = [call EXCEPT !.saves = call.saves + 1]
    /\ UNCHANGED <<index, documents, metadata, metaFile, last, lastOp,
                   faissTies>>

\* line 118: write_index has written the whole index
WriteIndexDone ==
    /\ UNCHANGED nonPipelineVars
    /\ pc = "writing_index"
    /\ pc' = "save_meta"
    /\ indexFile' = WrittenIndex(index)
    /\ UNCHANGED <<index, documents, metadata, metaFile, call, last, lastOp,
                   faissTies, lastSaved>>

\* line 119: open(metadata_path, 'wb') truncates the metadata file
WriteMetaOpen ==
    /\ UNCHANGED nonPipelineVars
    /\ pc = "save_meta"
    /\ pc' = "writing_meta"
    /\ metaFile' = PartialFile
    /\ UNCHANGED <<index, documents, metadata, indexFile, call, last, lastOp,
                   faissTies, lastSaved>>

\* lines 120-123, 187: pickle.dump has written the file; add_documents returns
WriteMetaDone ==
    /\ UNCHANGED nonPipelineVars
    /\ pc = "writing_meta"
    /\ pc' = "idle"
    /\ metaFile' = WrittenMeta(documents, metadata)
    /\ lastSaved' = [valid |-> TRUE, index |-> index, documents |-> documents,
                     metadata |-> metadata]
    /\ lastOp' = "add"
    /\ call' = NoCall
    /\ UNCHANGED <<index, documents, metadata, indexFile, last, faissTies>>

----------------------------------------------------------------------------
(* search_similar *)

\* mutant of JoinResult: the metadata read at the loop counter i of line 202
\* instead of at idx
JoinResultAtLoopIndex(docs, md, hit, i) ==
    [content |-> docs[hit.idx + 1],
     source |-> md[i].source,
     chunk_id |-> md[i].chunk_id,
     similarity_score |-> hit.score,
     pos |-> hit.idx]

\* lines 203-209: the result built for slot i of the index's answer; pos is
\* the position it was joined from (not a key of the code's dict)
JoinResult(docs, md, hit, i) ==
    [content |-> docs[hit.idx + 1],
     source |-> md[hit.idx + 1].source,
     chunk_id |-> md[hit.idx + 1].chunk_id,
     similarity_score |-> hit.score,
     pos |-> hit.idx]

\* lines 201-209: the loop over indices[0]
RECURSIVE FormatFrom(_, _, _, _)
FormatFrom(docs, md, hits, i) ==
    IF i > Len(hits) THEN <<>>
    ELSE IF 0 <= hits[i].idx /\ hits[i].idx < Len(docs)
         THEN <<JoinResult(docs, md, hits[i], i)>>
              \o FormatFrom(docs, md, hits, i + 1)
         ELSE FormatFrom(docs, md, hits, i + 1)

\* insert r into a list sorted by descending score, after its equals
RECURSIVE InsertDesc(_, _)
InsertDesc(sorted, r) ==
    IF sorted = <<>> THEN <<r>>
    ELSE IF Head(sorted).similarity_score >= r.similarity_score
         THEN <<Head(sorted)>> \o InsertDesc(Tail(sorted), r)
         ELSE <<r>> \o sorted

\* line 211: list.sort(key=score, reverse=True), which is stable
RECURSIVE SortByScoreDesc(_)
SortByScoreDesc(rs) ==
    IF rs = <<>> THEN <<>>
    ELSE InsertDesc(SortByScoreDesc(SubSeq(rs, 1, Len(rs) - 1)), rs[Len(rs)])

\* a k that is kept from the search before
SearchKSticky(n_results, docs) ==
    IF last.k > 0 THEN Min(last.k, Len(docs)) ELSE Min(n_results, Len(docs))

\* line 199: the k passed to index.search
SearchK(n_results, docs) == Min(n_results, Len(docs))

\* lines 189-216.  raises: encode or index.search raises and the except
\* clause returns [].
SearchSimilar(query, n_results, raises) ==
    /\ UNCHANGED nonPipelineVars
    /\ pc = "idle"
    /\ lastOp' = "search"
    /\ LET called == [NoSearch EXCEPT
                         !.query = query, !.k = n_results,
                         !.seen = [ntotal |-> Len(index.xb),
                                   documents |-> Len(documents),
                                   metadata |-> Len(metadata)],
                         !.during = other.pc # "idle"]
       IN  IF Len(documents) = 0
           THEN last' = called
           ELSE IF raises
           THEN last' = [called EXCEPT !.raised = TRUE]
           ELSE LET hits == IndexSearch(index, EncodeQuery(query),
                                        SearchK(n_results, documents),
                                        faissTies)
                IN  last' = [called EXCEPT
                               !.indices = hits,
                               !.results = SortByScoreDesc(
                                  FormatFrom(documents, metadata, hits, 1))]
    /\ UNCHANGED <<pc, index, documents, metadata, indexFile, metaFile, call,
                   faissTies, lastSaved>>

----------------------------------------------------------------------------
Next ==
    \/ SetupFaissIndex
    \/ Crash
    \/ \E path \in Paths : AddDocuments(path)
    \/ SkipShortChunk
    \/ \E out \in EmbedOutcomes : EmbedChunk(out)
    \/ EndLoop
    \/ WriteIndexOpen
    \/ WriteIndexDone
    \/ WriteMetaOpen
    \/ WriteMetaDone
    \/ \E query \in Queries, n_results \in 1..MaxK, raises \in BOOLEAN :
          SearchSimilar(query, n_results, raises)

Spec == Init /\ [][Next]_vars

----------------------------------------------------------------------------
(* Two threads on one pipeline object *)

\* The interpreter switches between the two threads of the process, which
\* it may do between any two steps: no method of the class takes a lock.
ContextSwitch ==
    /\ pc \notin {"down", "aborted"}
    /\ other.switches < MaxSwitches
    /\ pc' = other.pc
    /\ call' = other.call
    /\ other' = [pc |-> pc, call |-> call, switches |-> other.switches + 1]
    /\ UNCHANGED <<index, documents, metadata, indexFile, metaFile, last,
                   lastOp, faissTies, lastSaved, gen, chunker, cppVars>>

\* search_similar called by one thread while the other is inside
\* add_documents
SearchWhileAdding(query, n_results) ==
    /\ other.pc # "idle"
    /\ SearchSimilar(query, n_results, FALSE)

\* the files the two threads ingest
ThreadPaths == {"a.txt", "b.pdf"}

\* add_documents called by a thread while the documents list is empty: the
\* two threads fill a new knowledge base
AddToEmpty(path) ==
    /\ documents = <<>>
    /\ AddDocuments(path)

\* the steps of one process whose two threads call add_documents and
\* search_similar
NextThreads ==
    \/ \E path \in ThreadPaths : AddToEmpty(path)
    \/ \E out \in EmbedOutcomes : EmbedChunk(out)
    \/ EndLoop
    \/ WriteIndexOpen
    \/ WriteIndexDone
    \/ WriteMetaOpen
    \/ WriteMetaDone
    \/ \E query \in Queries, n_results \in 1..MaxK :
          SearchWhileAdding(query, n_results)
    \/ ContextSwitch

InitThreads == Init /\ faissTies = "asc"

SpecThreads == InitThreads /\ [][NextThreads]_vars

----------------------------------------------------------------------------
(* Claims about ingestion, persistence and search *)

Returned(op) == pc = "idle" /\ lastOp = op

\* the positions the results of the last search were joined from
ResultPositions == {last.results[j].pos : j \in DOMAIN last.results}

\* these positions are distinct, stored, and content and metadata of each
\* result are those of its position
JoinedFromStoredPositions ==
    /\ Cardinality(ResultPositions) = Len(last.results)
    /\ \A j \in DOMAIN last.results :
          LET r == last.results[j]
          IN  /\ 0 <= r.pos /\ r.pos < Len(documents)
              /\ r.content = documents[r.pos + 1]
              /\ r.source = metadata[r.pos + 1].source
              /\ r.chunk_id = metadata[r.pos + 1].chunk_id

\* where position p stands in the answer of the index
RawRank(p) == CHOOSE j \in DOMAIN last.indices : last.indices[j].idx = p

\* C1: after every add_documents call that returns, the number of vectors in
\* the index equals len(documents) and len(metadata).
C1_CountsAgreeAfterAdd ==
    Returned("add") =>
        /\ Len(index.xb) = Len(documents)
        /\ Len(documents) = Len(metadata)

\* C2: a call of add_documents with a path that was already ingested changes
\* neither the index, documents and metadata nor the persisted files.
C2_ReingestIsNoOp ==
    [][(call.dup /\ pc' # "down") =>
          UNCHANGED <<index, documents, metadata, indexFile, metaFile>>]_vars

\* C3: search_similar returns its results in descending score order, equal
\* scores in ascending insertion position, and the final sort keeps results
\* of equal score in the order the index returned them.
C3_DescendingTiesByPosition ==
    Returned("search") =>
        \A i, j \in DOMAIN last.results :
            i < j =>
               LET a == last.results[i]
                   b == last.results[j]
               IN  /\ a.similarity_score >= b.similarity_score
                   /\ a.similarity_score = b.similarity_score =>
                         /\ a.pos < b.pos
                         /\ RawRank(a.pos) < RawRank(b.pos)

\* C4 as stated: with N chunks stored, search_similar returns exactly
\* min(n_results, N) results, each joined from a distinct stored position.
C4_ExactlyMinResults ==
    Returned("search") =>
        /\ Len(last.results) = Min(last.k, Len(documents))
        /\ JoinedFromStoredPositions

\* C4 as amended: at most min(n_results, N) results for N = len(documents),
\* each joined from a distinct stored position; exactly min(n_results, N)
\* when encode and index.search do not raise and the index holds N vectors;
\* none when they raise or N = 0.
C4_ClampedJoinedResults ==
    Returned("search") =>
        /\ Len(last.results) <= Min(last.k, Len(documents))
        /\ JoinedFromStoredPositions
        /\ (~last.raised /\ Len(index.xb) = Len(documents))
              => Len(last.results) = Min(last.k, Len(documents))
        /\ (last.raised \/ Len(documents) = 0) => last.results = <<>>

\* C4 witness: a search for more results than the two stored chunks, which
\* returns both, and one for fewer, which returns one
C4_Witness ==
    /\ Returned("search")
    /\ ~last.raised
    /\ Len(documents) = 2
    /\ Len(index.xb) = 2
    /\ last.k = 3
    /\ Len(last.results) = 2
    /\ last.results[1].pos = 1

\* C5: a search with empty query text returns the empty list.
C5_EmptyQueryNoResults ==
    (Returned("search") /\ last.query = "") => last.results = <<>>

\* the pair a restart would load is a whole, matching pair
LoadablePair ==
    BothExist =>
        /\ indexFile.st = "ok"
        /\ metaFile.st = "ok"
        /\ Len(indexFile.index.xb) = Len(metaFile.documents)
        /\ Len(metaFile.documents) = Len(metaFile.metadata)

\* C8: at every point of a save the persisted index and metadata belong to
\* the same state, and a restart never loads an index whose vector count
\* differs from the metadata count.
C8_SaveIsAtomic ==
    /\ LoadablePair
    /\ Returned("init") => Len(index.xb) = Len(documents)

\* the persisted files are corrupt: one is missing or unreadable, or the
\* counts differ
CorruptFiles ==
    \/ indexFile.st # "ok"
    \/ metaFile.st # "ok"
    \/ Len(indexFile.index.xb) # Len(metaFile.documents)
    \/ Len(indexFile.index.xb) # Len(metaFile.metadata)

\* C9: with corrupt persisted files the constructor does not abort and the
\* pipeline starts with an empty index, documents and metadata.
C9_CorruptLoadsEmpty ==
    (lastOp = "init" /\ CorruptFiles) =>
        /\ pc = "idle"
        /\ index = NewIndex(embedding_dim)
        /\ documents = <<>>
        /\ metadata = <<>>

----------------------------------------------------------------------------
\* C11: every entry of documents, every chunk about to be added to it and
\* every vector of the index comes from a chunk of more than 50 characters,
\* so none is shorter than the minimum of 50.
C11_NoShortChunkStored ==
    /\ \A j \in DOMAIN documents : JoinedLen(documents[j]) > min_chunk_chars
    /\ \A j \in DOMAIN call.new_documents :
          JoinedLen(call.new_documents[j]) > min_chunk_chars
    /\ \A j \in DOMAIN index.origin : index.origin[j].chars > min_chunk_chars

\* C11 witness: a chunk of 51 characters is stored, and the loop has passed
\* over a chunk of 50 characters without storing it
C11_Witness ==
    /\ pc = "loop"
    /\ call.file = "c.docx"
    /\ JoinedLen(CallChunks[1]) = min_chunk_chars
    /\ call.outs = <<"short">>
    /\ call.new_documents = <<>>
    /\ \E j \in DOMAIN documents :
          /\ JoinedLen(documents[j]) = min_chunk_chars + 1
          /\ index.origin[j].chars = min_chunk_chars + 1

\* the chunks of the running call that went the way w
ChunksThatWent(w) == {j \in DOMAIN call.outs : call.outs[j] = w}

\* C12: every vector of the index has the index's dimension; a chunk whose
\* vector index.add rejected leaves no vector in the index and no entry in
\* new_documents and new_metadata (the only source of documents and
\* metadata), and the loop goes on with the chunk after it.
C12_WrongDimensionRejected ==
    /\ \A j \in DOMAIN index.origin : index.origin[j].dim = index.d
    /\ pc = "loop" =>
          /\ Len(index.xb) = call.base + Cardinality(ChunksThatWent("stored"))
          /\ Len(call.new_documents) = Cardinality(ChunksThatWent("stored"))
          /\ Len(call.new_metadata) = Cardinality(ChunksThatWent("stored"))
          /\ \A j \in ChunksThatWent("rejected") :
                /\ \A m \in DOMAIN call.new_metadata :
                      call.new_metadata[m].chunk_id # j - 1
                /\ \A v \in (call.base + 1)..Len(index.origin) :
                      index.origin[v].chunk_id # j - 1
          /\ call.i = Len(call.outs)

\* C12 witness: index.add rejected the vector of the first chunk of a file
\* and the second chunk was stored after it
C12_Witness ==
    /\ pc = "loop"
    /\ call.file = "a.txt"
    /\ call.outs = <<"rejected", "stored">>
    /\ Len(index.xb) = call.base + 1
    /\ index.origin[Len(index.xb)].chunk_id = 1
    /\ call.new_documents = <<CallChunks[2]>>

\* the chunk a vector of the index was made from
OriginChunk(o) ==
    chunk_text(ExtractText(o.source), chunk_size_default,
               chunk_overlap_default)[o.chunk_id + 1]

\* position by position, documents and metadata describe the chunk whose
\* vector stands at that position of the index
Aligned ==
    /\ Len(index.origin) = Len(documents)
    /\ Len(documents) = Len(metadata)
    /\ \A j \in DOMAIN documents :
          /\ documents[j] = OriginChunk(index.origin[j])
          /\ metadata[j].source = index.origin[j].source
          /\ metadata[j].chunk_id = index.origin[j].chunk_id

\* C13: a search_similar call that runs while another thread is inside
\* add_documents sees the same number of vectors, documents and metadata
\* records, and returns as many results as a search run before or after the
\* ingestion does for the documents it saw.
C13_SearchExcludedFromIngest ==
    last.during =>
        /\ last.seen.ntotal = last.seen.documents
        /\ last.seen.documents = last.seen.metadata
        /\ Len(last.results) = Min(last.k, last.seen.documents)

\* C14: when two add_documents calls that overlapped have both returned,
\* documents and metadata are aligned with the vectors of the index, as they
\* are after the two calls run one after the other.
C14_IngestionSerialized ==
    (pc = "idle" /\ other.pc = "idle" /\ other.switches > 0) => Aligned

\* C15: after every add_documents call of a sequence of calls made one after
\* the other, whatever chunks failed, documents and metadata are aligned
\* with the vectors of the index.
C15_PositionalAlignment ==
    Returned("add") => Aligned

\* the first n chunks of the running call that were stored, in their order
RECURSIVE StoredAmong(_)
StoredAmong(n) ==
    IF n = 0 THEN <<>>
    ELSE StoredAmong(n - 1)
         \o (IF call.outs[n] = "stored" THEN <<n>> ELSE <<>>)

\* C16: inside add_documents every chunk is visited, a chunk whose embedding
\* raised is the only one its failure skips, the chunks stored are in
\* new_documents and new_metadata in their original order, and after the
\* loop they are the last entries of documents and metadata.
C16_OnlyFailedChunkSkipped ==
    pc \in {"loop", "save_index", "writing_index", "save_meta",
            "writing_meta"} =>
        LET kept == StoredAmong(Len(call.outs))
        IN  /\ call.i = Len(call.outs)
            /\ pc # "loop" => call.i = Len(CallChunks)
            /\ \A j \in DOMAIN call.outs :
                  call.outs[j] = "short" <=> ~LongEnough(CallChunks[j])
            /\ call.new_documents = [j \in DOMAIN kept |-> CallChunks[kept[j]]]
            /\ [j \in DOMAIN kept |-> call.new_metadata[j].chunk_id + 1] = kept
            /\ pc # "loop" =>
                  /\ Len(documents) >= Len(kept)
                  /\ SubSeq(documents, Len(documents) - Len(kept) + 1,
                            Len(documents)) = call.new_documents
                  /\ SubSeq(metadata, Len(metadata) - Len(kept) + 1,
                            Len(metadata)) = call.new_metadata

\* C16 witness: the embedding of the first chunk of a file raised, the second
\* chunk was stored, and the loop has ended with that chunk appended
C16_Witness ==
    /\ pc = "save_index"
    /\ call.file = "a.txt"
    /\ call.outs = <<"raised", "stored">>
    /\ documents # <<>>
    /\ documents[Len(documents)] = CallChunks[2]
    /\ metadata[Len(metadata)].chunk_id = 1

\* C24: a call of add_documents begins at most one save, and only when its
\* loop is over and has stored a chunk: the files are written in no other
\* step; and when a call that stored a chunk returns, the index file holds
\* the index in memory and the metadata file holds documents and metadata as
\* they are in memory.
C24_SaveOncePerBatch ==
    [][/\ call'.saves <= 1
       /\ (indexFile' # indexFile \/ metaFile' # metaFile) =>
             /\ call.i = Len(CallChunks)
             /\ call.new_documents # <<>>
             /\ call'.saves = 1 \/ (pc = "writing_meta" /\ call.saves = 1)
       /\ (pc = "loop" /\ call.i < Len(CallChunks)) =>
             (call'.saves = 0 /\ pc' \in {"loop", "down"})
       /\ (pc # "idle" /\ Returned("add")' /\ call.new_documents # <<>>) =>
             /\ indexFile'.st = "ok" /\ metaFile'.st = "ok"
             /\ indexFile'.index = index'
             /\ metaFile'.documents = documents'
             /\ metaFile'.metadata = metadata']_vars

\* C24 witness: the two chunks of one file are in memory and in the files
\* after a call that returned
C24_Witness ==
    /\ Returned("add")
    /\ Len(documents) = 2
    /\ Sources(metadata) = {"a.txt"}
    /\ indexFile.st = "ok" /\ metaFile.st = "ok"
    /\ indexFile.index = index
    /\ Len(index.xb) = 2
    /\ metaFile.documents = documents
    /\ metaFile.metadata = metadata
    /\ lastSaved.valid

----------------------------------------------------------------------------
\* a search_similar call returns
SearchReturns == pc = "idle" /\ Returned("search")'

\* the call that returns has the query and k of a search that returned just
\* before it
SearchRepeated ==
    /\ Returned("search")
    /\ SearchReturns
    /\ last'.query = last.query
    /\ last'.k = last.k

IsSpace(c) == c \in {" ", "\n", "\t"}

Rep(c, n) == [j \in 1..n |-> c]

\* s[:n] of Python
Take(s, n) == SubSeq(s, 1, Min(n, Len(s)))

\* s[n:] of Python
Drop(s, n) == SubSeq(s, n + 1, Len(s))

\* sub occurs in s at position i (1-based)
MatchAt(s, sub, i) ==
    /\ i + Len(sub) - 1 <= Len(s)
    /\ s[i] = sub[1]
    /\ SubSeq(s, i, i + Len(sub) - 1) = sub

\* the first position in lo..hi where sub occurs in s, 0 if there is none
RECURSIVE FindIn(_, _, _, _)
FindIn(s, sub, lo, hi) ==
    IF lo > hi THEN 0
    ELSE IF lo = hi THEN (IF MatchAt(s, sub, lo) THEN lo ELSE 0)
    ELSE LET mid == (lo + hi) \div 2
             l == FindIn(s, sub, lo, mid)
         IN  IF l # 0 THEN l ELSE FindIn(s, sub, mid + 1, hi)

\* s.find(sub) + 1, for a non-empty sub
Find(s, sub) == FindIn(s, sub, 1, Len(s) - Len(sub) + 1)

\* sub in s
Contains(s, sub) == Find(s, sub) # 0

\* s.split(sep)[0]
BeforeFirst(s, sep) ==
    LET i == Find(s, sep) IN IF i = 0 THEN s ELSE Take(s, i - 1)

\* s.split(sep)[1] taken for s.split(sep)[-1]: what follows the first
\* occurrence
AfterFirstOnly(s, sep) ==
    LET i == Find(s, sep)
    IN  IF i = 0 THEN s ELSE Drop(s, i + Len(sep) - 1)

\* s.split(sep)[-1]: what follows the last occurrence split finds, scanning
\* from the left
RECURSIVE AfterLast(_, _)
AfterLast(s, sep) ==
    LET i == Find(s, sep)
    IN  IF i = 0 THEN s ELSE AfterLast(Drop(s, i + Len(sep) - 1), sep)

\* the first position in lo..hi of s that holds no whitespace, 0 if none
RECURSIVE FirstInk(_, _, _)
FirstInk(s, lo, hi) ==
    IF lo > hi THEN 0
    ELSE IF lo = hi THEN (IF IsSpace(s[lo]) THEN 0 ELSE lo)
    ELSE LET mid == (lo + hi) \div 2
             l == FirstInk(s, lo, mid)
         IN  IF l # 0 THEN l ELSE FirstInk(s, mid + 1, hi)

\* the last position in lo..hi of s that holds no whitespace, 0 if none
RECURSIVE LastInk(_, _, _)
LastInk(s, lo, hi) ==
    IF lo > hi THEN 0
    ELSE IF lo = hi THEN (IF IsSpace(s[lo]) THEN 0 ELSE lo)
    ELSE LET mid == (lo + hi) \div 2
             r == LastInk(s, mid + 1, hi)
         IN  IF r # 0 THEN r ELSE LastInk(s, lo, mid)

\* s.strip()
Strip(s) ==
    LET a == FirstInk(s, 1, Len(s))
    IN  IF a = 0 THEN <<>> ELSE SubSeq(s, a, LastInk(s, 1, Len(s)))

\* the characters lo..hi of an already stripped s, each run of whitespace
\* replaced by one space
RECURSIVE Squash(_, _, _)
Squash(s, lo, hi) ==
    IF lo > hi THEN <<>>
    ELSE IF lo = hi
         THEN IF ~IsSpace(s[lo]) THEN <<s[lo]>>
              ELSE IF IsSpace(s[lo - 1]) THEN <<>> ELSE <<" ">>
    ELSE LET mid == (lo + hi) \div 2
         IN  Squash(s, lo, mid) \o Squash(s, mid + 1, hi)

\* ' '.join(s.split())
JoinSplit(s) == LET t == Strip(s) IN Squash(t, 1, Len(t))

\* ' '.join(parts)
RECURSIVE JoinSpace(_)
JoinSpace(parts) ==
    IF parts = <<>> THEN <<>>
    ELSE IF Len(parts) = 1 THEN parts[1]
    ELSE parts[1] \o <<" ">> \o JoinSpace(Tail(parts))

----------------------------------------------------------------------------
(* generate_response: its literals *)

max_context_chars == 400
min_answer_chars == 20
max_fallback_chars == 300
key_point_chars == 150
summary_part_chars == 200
max_results_used == 2

\* line 221
NoInfoMessage ==
    <<"I", " ", "c", "o", "u", "l", "d", "n", "'", "t", " ", "f", "i", "n",
      "d", " ", "r", "e", "l", "e", "v", "a", "n", "t", " ", "i", "n", "f",
      "o", "r", "m", "a", "t", "i", "o", "n", " ", "i", "n", " ", "m", "y",
      " ", "k", "n", "o", "w", "l", "e", "d", "g", "e", " ", "b", "a", "s",
      "e", " ", "t", "o", " ", "a", "n", "s", "w", "e", "r", " ", "y", "o",
      "u", "r", " ", "q", "u", "e", "s", "t", "i", "o", "n", ".">>

\* lines 236-238
PromptHead ==
    <<"H", "e", "r", "e", " ", "i", "s", " ", "s", "o", "m", "e", " ", "i",
      "n", "f", "o", "r", "m", "a", "t", "i", "o", "n", " ", "f", "r", "o",
      "m", " ", "d", "o", "c", "u", "m", "e", "n", "t", "s", ":", "\n", "\n">>

\* lines 238-239
PromptQuestion ==
    <<"\n", "B", "a", "s", "e", "d", " ", "o", "n", " ", "t", "h", "i",
      "s", " ", "i", "n", "f", "o", "r", "m", "a", "t", "i", "o", "n", ",",
      " ", "a", "n", "s", "w", "e", "r", " ", "t", "h", "e", " ", "f", "o",
      "l", "l", "o", "w", "i", "n", "g", " ", "q", "u", "e", "s", "t", "i",
      "o", "n", ":", " ">>

\* lines 239-241
PromptTail ==
    <<"\n", "\n", "A", "n", "s", "w", "e", "r", ":">>

\* line 267
AnswerMarker ==
    <<"A", "n", "s", "w", "e", "r", ":">>

\* line 288
FallbackHead ==
    <<"B", "a", "s", "e", "d", " ", "o", "n", " ", "t", "h", "e", " ", "B",
      "a", "g", "u", "i", "o", " ", "C", "i", "t", "y", " ", "o", "r", "d",
      "i", "n", "a", "n", "c", "e", "s", ",", " ", "h", "e", "r", "e", " ",
      "a", "r", "e", " ", "s", "o", "m", "e", " ", "k", "e", "y", " ", "t",
      "r", "a", "f", "f", "i", "c", " ", "r", "u", "l", "e", "s", ":", " ">>

\* line 310
ExceptHead ==
    <<"B", "a", "s", "e", "d", " ", "o", "n", " ", "B", "a", "g", "u", "i",
      "o", " ", "C", "i", "t", "y", " ", "o", "r", "d", "i", "n", "a", "n",
      "c", "e", "s", ":", " ">>

\* line 311
NoDetailMessage ==
    <<"I", " ", "f", "o", "u", "n", "d", " ", "t", "r", "a", "f", "f", "i",
      "c", " ", "r", "e", "g", "u", "l", "a", "t", "i", "o", "n", " ", "i",
      "n", "f", "o", "r", "m", "a", "t", "i", "o", "n", " ", "b", "u", "t",
      " ", "c", "o", "u", "l", "d", "n", "'", "t", " ", "g", "e", "n", "e",
      "r", "a", "t", "e", " ", "a", " ", "d", "e", "t", "a", "i", "l", "e",
      "d", " ", "r", "e", "s", "p", "o", "n", "s", "e", ".">>

\* lines 232, 290, 308
Ellipsis ==
    <<".", ".", ".">>

----------------------------------------------------------------------------
(* generate_response *)

\* mutant of IsEmptyContext: a test for None, which an empty list passes
IsEmptyContextNoneTest(context) == FALSE

\* line 220: not context
IsEmptyContext(context) == Len(context) = 0

\* context as it is, for context[:2]
TopResultsAll(context) == context

\* context[:2]
TopResults(context) == Take(context, max_results_used)

\* lines 227-232: one retrieved content as it is put in the prompt
ContextPassage(content) ==
    LET c == JoinSplit(content)
    IN  IF Len(c) > max_context_chars
        THEN Take(c, max_context_chars) \o Ellipsis
        ELSE c

\* str(i) for the source numbers
Digit(i) == <<CASE i = 1 -> "1" [] i = 2 -> "2" [] i = 3 -> "3" [] OTHER -> "4">>

\* lines 225-233: context_text after the results from the i-th of used
RECURSIVE ContextTextFrom(_, _)
ContextTextFrom(used, i) ==
    IF i > Len(used) THEN <<>>
    ELSE <<"S", "o", "u", "r", "c", "e", " ">> \o Digit(i) \o <<":", " ">>
         \o ContextPassage(used[i].content) \o <<"\n", "\n">>
         \o ContextTextFrom(used, i + 1)

\* lines 236-241
BuildPrompt(query, context) ==
    PromptHead \o ContextTextFrom(TopResults(context), 1) \o PromptQuestion
    \o query \o PromptTail

\* the tests of lines 263 and 267 in the other order
ExtractionBranchMarkerFirst(prompt, response) ==
    IF Contains(response, AnswerMarker) THEN "marker"
    ELSE IF Contains(response, prompt) THEN "prompt"
    ELSE "raw"

\* lines 263-272: the three ways the answer is cut out of the generated text
ExtractionBranch(prompt, response) ==
    IF Contains(response, prompt) THEN "prompt"
    ELSE IF Contains(response, AnswerMarker) THEN "marker"
    ELSE "raw"

ExtractAnswer(prompt, response) ==
    CASE ExtractionBranch(prompt, response) = "prompt" ->
            Strip(AfterLast(response, prompt))
      [] ExtractionBranch(prompt, response) = "marker" ->
            Strip(AfterLast(response, AnswerMarker))
      [] OTHER -> response

\* line 275
FirstLine(response) ==
    IF Contains(response, <<"\n">>) THEN BeforeFirst(response, <<"\n">>)
    ELSE response

\* mutant of FailsQualityGate: the condition of line 278 negated
FailsQualityGateNegated(response) ==
    ~(response = <<>> \/ Len(Strip(response)) < min_answer_chars)

\* a quality gate that also sends a response of exactly 20 characters to the
\* fallback
FailsQualityGateInclusive(response) ==
    response = <<>> \/ Len(Strip(response)) <= min_answer_chars

\* line 278: the response is empty or too short
FailsQualityGate(response) ==
    response = <<>> \/ Len(Strip(response)) < min_answer_chars

\* lines 283-286
KeyPoint(content) ==
    Strip(IF Contains(content, <<".">>) THEN BeforeFirst(content, <<".">>)
          ELSE Take(content, key_point_chars))

\* lines 279-290: the fallback when the response fails the quality gate
FallbackResponse(context) ==
    LET used == TopResults(context)
        response == FallbackHead
                    \o JoinSpace([j \in DOMAIN used |-> KeyPoint(used[j].content)])
    IN  IF Len(response) > max_fallback_chars
        THEN Take(response, max_fallback_chars) \o Ellipsis
        ELSE response

\* lines 302-308
SummaryPart(content) ==
    IF Contains(content, <<".">>)
    THEN Strip(BeforeFirst(content, <<".">>)) \o <<".">>
    ELSE Strip(Take(content, summary_part_chars)) \o Ellipsis

\* lines 296-311: the except clause
ExceptResponse(context) ==
    IF Len(context) > 0
    THEN LET used == TopResults(context)
         IN  ExceptHead
             \o JoinSpace([j \in DOMAIN used |-> SummaryPart(used[j].content)])
    ELSE NoDetailMessage

\* lines 258-294: from the generated text to the returned answer
Postprocess(prompt, raw, context) ==
    LET response == FirstLine(ExtractAnswer(prompt, raw))
    IN  IF FailsQualityGate(response)
        THEN [answer |-> FallbackResponse(context), path |-> "fallback"]
        ELSE [answer |-> response, path |-> "generated"]

\* the text the generator returns for a prompt, by the kind of its outcome
GeneratedText(prompt, outcome) ==
    CASE outcome.kind = "echo"  -> prompt \o outcome.body
      [] outcome.kind = "bare"  -> outcome.body
      [] outcome.kind = "late"  -> <<"O", "k", ".", " ">> \o prompt \o outcome.body
      [] outcome.kind = "twice" -> prompt \o outcome.body \o prompt \o outcome.body
      [] OTHER -> <<>>

\* lines 218-311: what the call returns, how often it invoked the generator
\* and on which path it returned; raw, branch and kept are the generated
\* text, the extraction branch taken and the text lines 263-272 kept
GenerateResponse(query, context, outcome) ==
    IF IsEmptyContext(context)
    THEN [answer |-> NoInfoMessage, calls |-> 0, path |-> "empty",
          raw |-> <<>>, branch |-> "none", kept |-> <<>>]
    ELSE LET prompt == BuildPrompt(query, context)
         IN  IF outcome.kind = "raise"
             THEN [answer |-> ExceptResponse(context), calls |-> 1,
                   path |-> "except", raw |-> <<>>, branch |-> "none",
                   kept |-> <<>>]
             ELSE LET raw == GeneratedText(prompt, outcome)
                      post == Postprocess(prompt, raw, context)
                  IN  [answer |-> post.answer, calls |-> 1,
                       path |-> post.path, raw |-> raw,
                       branch |-> ExtractionBranch(prompt, raw),
                       kept |-> ExtractAnswer(prompt, raw)]

----------------------------------------------------------------------------
(* The arguments and generator outcomes generate_response is run on *)

\* longest result list passed to generate_response
MaxContext == 3

Contents ==
    { <<"S", "t", "o", "p", " ", "a", "t", " ", "r", "e", "d">>,
      <<" ", "Y", "i", "e", "l", "d", " ", " ", "t", "o", "\n", "a", "l", "l",
        ".", " ", "F", "i", "n", "e", "s", " ", "a", "p", "p", "l", "y", ".">>,
      Rep("x", 160) \o <<" ", "\n">> \o Rep("y", 250) }

Results == {[content |-> c] : c \in Contents}

Contexts == UNION {[1..n -> Results] : n \in 0..MaxContext}

GenQueries == {<<>>, <<"S", "p", "e", "e", "d", "?">>}

Bodies ==
    { <<>>,
      <<" ", "\n", " ">>,
      <<" ", "Y", "e", "s", ".">>,
      <<" ">> \o Rep("n", 19) \o <<"\n">> \o Rep("m", 30),
      <<" ">> \o Rep("k", 20) \o <<"\n">> \o Rep("m", 30),
      <<"\n">> \o Rep("k", 25),
      <<"I", "t", " ", "i", "s", " ">> \o AnswerMarker \o <<" ">> \o Rep("a", 22),
      AnswerMarker \o Rep("b", 25) \o AnswerMarker \o <<" ">> \o Rep("c", 21) }

GenOutcomes ==
    {[kind |-> "raise", body |-> <<>>]}
    \cup {[kind |-> k, body |-> b] : k \in {"echo", "bare", "late", "twice"},
                                    b \in Bodies}

InitGen ==
    /\ pc = "idle"
    /\ index = NewIndex(embedding_dim)
    /\ documents = <<>>
    /\ metadata = <<>>
    /\ indexFile = NoFile
    /\ metaFile = NoFile
    /\ call = NoCall
    /\ last = NoSearch
    /\ lastOp = "init"
    /\ faissTies = "asc"
    /\ lastSaved = NothingSaved
    /\ other = NoThread
    /\ chunker = NoChunking
    /\ CppDown
    /\ \E query \in GenQueries, context \in Contexts :
          gen = [NoGen EXCEPT !.phase = "called", !.query = query,
                              !.context = context]

\* generate_response(query, context) runs to its return
Generate(outcome) ==
    /\ gen.phase = "called"
    /\ LET r == GenerateResponse(gen.query, gen.context, outcome)
       IN  gen' = [gen EXCEPT !.phase = "returned",
                              !.outcome = IF r.calls = 0 THEN NoGen.outcome
                                          ELSE outcome,
                              !.raw = r.raw,
                              !.branch = r.branch,
                              !.kept = r.kept,
                              !.answer = r.answer,
                              !.calls = r.calls,
                              !.path = r.path]
    /\ UNCHANGED <<pipelineVars, other, chunker, cppVars>>

NextGen == \E outcome \in GenOutcomes : Generate(outcome)

SpecGen == InitGen /\ [][NextGen]_vars

----------------------------------------------------------------------------
(* Claims about generate_response *)

\* C6: with at least one retrieval result, generate_response returns a
\* non-empty answer whatever the generator does (empty output, short output,
\* well-formed output, an exception).
C6_AnswerNonEmpty ==
    (gen.phase = "returned" /\ Len(gen.context) >= 1) => gen.answer # <<>>

\* C6 witness: the generator returned nothing and the answer was built from
\* two results
C6_Witness ==
    /\ gen.phase = "returned"
    /\ Len(gen.context) = 2
    /\ gen.outcome.kind = "bare"
    /\ gen.raw = <<>>
    /\ gen.path = "fallback"
    /\ gen.answer # <<>>

\* C7: with no retrieval result, generate_response returns the fixed message
\* without invoking the generator, and no fallback answer equals that message.
C7_NoInfoWithoutGenerator ==
    gen.phase = "returned" =>
        /\ Len(gen.context) = 0 =>
              /\ gen.answer = NoInfoMessage
              /\ gen.calls = 0
        /\ gen.path \in {"fallback", "except"} => gen.answer # NoInfoMessage

\* C7 witness: a call with an empty result list has returned
C7_Witness ==
    /\ gen.phase = "returned"
    /\ gen.context = <<>>
    /\ gen.path = "empty"
    /\ gen.answer = NoInfoMessage


\* the calls in which the generator returned a text
Generated == gen.phase = "returned" /\ gen.path \in {"generated", "fallback"}

\* s up to its first newline, all of s if it has none
CutAtNewline(s) ==
    LET N == {j \in DOMAIN s : s[j] = "\n"}
    IN  IF N = {} THEN s
        ELSE SubSeq(s, 1, (CHOOSE m \in N : \A x \in N : m <= x) - 1)

\* C17: generate_response returns the generator's text exactly when the
\* extracted text, cut at its first newline, is non-empty and has at least 20
\* characters after stripping, and the fallback otherwise; an answer taken
\* from the generator is that line, so it has no newline and at least 20
\* stripped characters.
C17_QualityGate ==
    Generated =>
        LET line == CutAtNewline(gen.kept)
        IN  /\ gen.path = "generated" <=>
                  (line # <<>> /\ Len(Strip(line)) >= 20)
            /\ gen.path = "generated" =>
                  /\ gen.answer = line
                  /\ \A j \in DOMAIN gen.answer : gen.answer[j] # "\n"
                  /\ Len(Strip(gen.answer)) >= 20
            /\ gen.path = "fallback" =>
                  gen.answer = FallbackResponse(gen.context)

\* C17 witness: the generator's text had a second line, and its first line,
\* of exactly 20 characters after stripping, was returned
C17_Witness ==
    /\ Generated
    /\ gen.path = "generated"
    /\ \E j \in DOMAIN gen.kept : gen.kept[j] = "\n"
    /\ Len(Strip(gen.answer)) = 20
    /\ gen.answer # gen.kept

\* the prompt of the call
Prompt == BuildPrompt(gen.query, gen.context)

\* the positions of s at which sub occurs
Occurrences(s, sub) ==
    {p \in 1..(Len(s) - Len(sub) + 1) : MatchAt(s, sub, p)}

\* what follows the last occurrence of sub in s
AfterLastOccurrence(s, sub) ==
    LET p == CHOOSE m \in Occurrences(s, sub) :
                 \A x \in Occurrences(s, sub) : x <= m
    IN  SubSeq(s, p + Len(sub), Len(s))

\* C18 as stated: the prompt branch is taken exactly when the raw output
\* begins with the prompt, and the text kept is the raw output without that
\* leading prompt.
C18_LeadingPromptRemoved ==
    Generated =>
        /\ gen.branch = "prompt" <=> MatchAt(gen.raw, Prompt, 1)
        /\ gen.branch = "prompt" => gen.kept = Drop(gen.raw, Len(Prompt))

\* C18: the prompt branch is taken exactly when the prompt occurs anywhere
\* in the raw output, and the text kept is what follows the last occurrence
\* of the prompt, stripped of leading and trailing whitespace.
C18_TextAfterLastPrompt ==
    Generated =>
        /\ gen.branch = "prompt" <=> Occurrences(gen.raw, Prompt) # {}
        /\ gen.branch = "prompt" =>
              gen.kept = Strip(AfterLastOccurrence(gen.raw, Prompt))

\* C18 witness: the raw output holds the prompt twice, and the text kept is
\* the stripped text after the second
C18_Witness ==
    /\ Generated
    /\ gen.branch = "prompt"
    /\ gen.outcome.kind = "twice"
    /\ Cardinality(Occurrences(gen.raw, Prompt)) = 2
    /\ gen.kept = <<"Y", "e", "s", ".">>

\* C19 as stated: when the prompt branch is not taken and the raw output
\* holds the marker, the text kept is exactly the text after the last
\* marker; when it holds neither, the raw output is kept; the branch is the
\* first of prompt, marker, raw whose test holds.
C19_ExactTextAfterMarker ==
    Generated =>
        /\ gen.branch = "marker" <=>
              /\ Occurrences(gen.raw, Prompt) = {}
              /\ Occurrences(gen.raw, AnswerMarker) # {}
        /\ gen.branch = "raw" <=>
              /\ Occurrences(gen.raw, Prompt) = {}
              /\ Occurrences(gen.raw, AnswerMarker) = {}
        /\ gen.branch = "marker" =>
              gen.kept = AfterLastOccurrence(gen.raw, AnswerMarker)
        /\ gen.branch = "raw" => gen.kept = gen.raw

\* C19: as stated, except that the text kept after the last marker is
\* stripped of leading and trailing whitespace; the raw output is kept as it
\* is.
C19_StrippedTextAfterMarker ==
    Generated =>
        /\ gen.branch \in {"prompt", "marker", "raw"}
        /\ gen.branch = "marker" <=>
              /\ Occurrences(gen.raw, Prompt) = {}
              /\ Occurrences(gen.raw, AnswerMarker) # {}
        /\ gen.branch = "raw" <=>
              /\ Occurrences(gen.raw, Prompt) = {}
              /\ Occurrences(gen.raw, AnswerMarker) = {}
        /\ gen.branch = "marker" =>
              gen.kept = Strip(AfterLastOccurrence(gen.raw, AnswerMarker))
        /\ gen.branch = "raw" => gen.kept = gen.raw

\* C19 witness: the raw output holds no prompt and the marker twice, and the
\* text kept is the text after the second marker without its leading space
C19_Witness ==
    /\ Generated
    /\ gen.branch = "marker"
    /\ Cardinality(Occurrences(gen.raw, AnswerMarker)) = 2
    /\ gen.kept = Rep("c", 21)
    /\ gen.kept # AfterLastOccurrence(gen.raw, AnswerMarker)

\* C20: when the generator raises, generate_response returns the answer it
\* returns for the same results when the generator's output fails the
\* quality gate.
C20_OneFallbackSynthesis ==
    (gen.phase = "returned" /\ gen.path = "except") =>
        gen.answer = FallbackResponse(gen.context)


\* s ends with the three dots
EndsWithEllipsis(s) ==
    Len(s) >= Len(Ellipsis) /\ Drop(s, Len(s) - Len(Ellipsis)) = Ellipsis

\* C21: every fallback answer, after a failed quality gate or after an
\* exception of the generator, has at most 300 characters plus the ellipsis,
\* and ends with the ellipsis exactly when it was cut at 300 characters.
C21_FallbackCapped ==
    (gen.phase = "returned" /\ gen.path \in {"fallback", "except"}) =>
        /\ Len(gen.answer) <= max_fallback_chars + Len(Ellipsis)
        /\ EndsWithEllipsis(gen.answer) <=>
              Len(gen.answer) = max_fallback_chars + Len(Ellipsis)


\* a content other than c
AnotherContent(c) == CHOOSE x \in Contents : x # c

\* the result lists that differ from context in one result at position 3 or
\* later.  Every replacement is a chain of these, since the calls of the
\* model cover every list.
ReplacedBeyondTop(context) ==
    {[context EXCEPT ![p] = [content |-> AnotherContent(context[p].content)]] :
        p \in 3..Len(context)}

\* C22: the prompt holds one passage for each of the first two results and
\* no third, each passage is one line of at most 400 characters plus the
\* ellipsis, and a result list that differs at position 3 or later gives the
\* same prompt and the same answer on both fallback paths.
C22_OnlyTopTwoUsed ==
    (gen.phase = "returned" /\ gen.calls = 1) =>
        /\ \A j \in 1..Min(2, Len(gen.context)) :
              LET passage == ContextPassage(gen.context[j].content)
              IN  /\ \A p \in DOMAIN passage : passage[p] # "\n"
                  /\ Len(passage) <= 400 + Len(Ellipsis)
                  /\ Len(passage) > 400 => EndsWithEllipsis(passage)
                  /\ Occurrences(Prompt,
                        <<" ">> \o Digit(j) \o <<":", " ">> \o passage
                        \o <<"\n", "\n">>) # {}
        /\ Occurrences(Prompt, <<"S", "o", "u", "r", "c", "e", " ", "3">>) = {}
        /\ \A other_context \in ReplacedBeyondTop(gen.context) :
              /\ BuildPrompt(gen.query, other_context) = Prompt
              /\ gen.path = "fallback" =>
                    FallbackResponse(other_context) = gen.answer
              /\ gen.path = "except" =>
                    ExceptResponse(other_context) = gen.answer

\* C22 witness: a call with three results, the third unlike the first two,
\* has returned the fallback answer
C22_Witness ==
    /\ gen.phase = "returned"
    /\ gen.path = "fallback"
    /\ Len(gen.context) = 3
    /\ gen.context[3] \notin {gen.context[1], gen.context[2]}
    /\ Len(ContextPassage(gen.context[1].content)) = 400 + Len(Ellipsis)
    /\ ReplacedBeyondTop(gen.context) # {}


----------------------------------------------------------------------------
(* chunk_text on its own *)

\* a text of n different words: word j has j characters
WordsOf(n) == [j \in 1..n |-> j]

\* chunk_text(text, chunk_size, chunk_overlap) is called with a text of up to
\* MaxWords words and chunk_size > chunk_overlap >= 0
InitChunk ==
    /\ pc = "idle"
    /\ index = NewIndex(embedding_dim)
    /\ documents = <<>>
    /\ metadata = <<>>
    /\ indexFile = NoFile
    /\ metaFile = NoFile
    /\ call = NoCall
    /\ last = NoSearch
    /\ lastOp = "init"
    /\ faissTies = "asc"
    /\ lastSaved = NothingSaved
    /\ gen = NoGen
    /\ other = NoThread
    /\ CppDown
    /\ \E n \in 0..MaxWords, chunk_size \in 1..MaxChunkSize :
          \E chunk_overlap \in 0..(chunk_size - 1) :
              chunker = [NoChunking EXCEPT !.phase = "called",
                                           !.words = WordsOf(n),
                                           !.chunk_size = chunk_size,
                                           !.chunk_overlap = chunk_overlap]

\* lines 125-136: the call runs to its return
ChunkText ==
    /\ chunker.phase = "called"
    /\ chunker' = [chunker EXCEPT
                      !.phase = "returned",
                      !.chunks = chunk_text(chunker.words, chunker.chunk_size,
                                            chunker.chunk_overlap)]
    /\ UNCHANGED <<pipelineVars, gen, other, cppVars>>

NextChunk == ChunkText

SpecChunk == InitChunk /\ [][NextChunk]_vars

\* C23: for a text of n >= 1 words chunk j (from 0) is the words from
\* position j * (chunk_size - chunk_overlap) on, chunk_size of them or those
\* that are left; every word is in a chunk, only the last chunk may be
\* shorter than chunk_size, the last chunk ends with the last word and no
\* chunk before it reaches the end; for a text without words there is no
\* chunk.
C23_SlidingWindow ==
    chunker.phase = "returned" =>
        LET n == Len(chunker.words)
            size == chunker.chunk_size
            step == chunker.chunk_size - chunker.chunk_overlap
            chunks == chunker.chunks
            count == Len(chunks)
        IN  /\ n = 0 => chunks = <<>>
            /\ n >= 1 =>
                  /\ count >= 1
                  /\ \A j \in 1..count :
                        /\ (j - 1) * step < n
                        /\ chunks[j] = SubSeq(chunker.words, (j - 1) * step + 1,
                                              Min((j - 1) * step + size, n))
                        /\ Len(chunks[j]) <= size
                        /\ j < count =>
                              /\ Len(chunks[j]) = size
                              /\ (j - 1) * step + size < n
                  /\ (count - 1) * step + Len(chunks[count]) = n
                  /\ \A w \in 1..n :
                        \E j \in 1..count :
                            \E p \in DOMAIN chunks[j] : chunks[j][p] = w

\* C23 witness: a text of 8 words in windows of 3 with an overlap of 1 gives
\* four chunks, the last one of two words
C23_Witness ==
    /\ chunker.phase = "returned"
    /\ Len(chunker.words) = 8
    /\ chunker.chunk_size = 3
    /\ chunker.chunk_overlap = 1
    /\ Len(chunker.chunks) = 4
    /\ chunker.chunks[4] = <<7, 8>>


----------------------------------------------------------------------------
(* PDFProcessor (pdf_processor.py) *)

\* the files that can lie in the directory
PdfFiles == {"a.pdf", "B.PDF", "s.pdf", "x.pdf", "n.txt"}

\* line 210: f.lower().endswith('.pdf'), by what follows the last dot of
\* the name and its lower case
IsPdfName(f) ==
    LET extension == CASE f = "B.PDF" -> "PDF"
                       [] f = "n.txt" -> "txt"
                       [] OTHER       -> "pdf"
        lowered == IF extension = "PDF" THEN "pdf" ELSE extension
    IN  lowered = "pdf"

\* lines 30-57: both readers fail on the file and the exception is raised
ExtractRaises(f) == f = "x.pdf"

\* line 249: the characters of each chunk the splitter makes of the text
SplitText(f) ==
    CASE f = "a.pdf" -> <<120, 99, 100>>
      [] f = "B.PDF" -> <<700>>
      [] f = "s.pdf" -> <<99>>
      [] OTHER       -> <<>>

\* line 253: chunks shorter than this are skipped
min_concept_chars == 100

\* line 221: os.path.join(directory, pdf_file)
PdfPath(f) == [dir |-> "documents/uploaded_pdfs", name |-> f]

\* lines 256-257: the content parsed from chunk i (from 0) of the file
ParsedContent(f, i) ==
    [chunk_id |-> [name |-> f, i |-> i], file_name |-> f,
     chars |-> SplitText(f)[i + 1]]

\* lines 251-258: the contents of the chunks from i on that are long enough
RECURSIVE ContentsFrom(_, _)
ContentsFrom(f, i) ==
    IF i >= Len(SplitText(f)) THEN <<>>
    ELSE IF SplitText(f)[i + 1] < min_concept_chars
         THEN ContentsFrom(f, i + 1)
         ELSE <<ParsedContent(f, i)>> \o ContentsFrom(f, i + 1)

\* lines 262-277: the document appended for a content
StoredDocument(f, content) ==
    [id |-> content.chunk_id, chars |-> content.chars, source |-> PdfPath(f),
     file_name |-> content.file_name]

\* lines 284-288: save_documents
SavedCache(docs) == [st |-> "ok", documents |-> docs]

\* lines 20-28: load_existing_documents
LoadExisting(cache) == IF cache.st = "absent" THEN <<>> ELSE cache.documents

\* an is_pdf_processed that finds nothing
is_pdf_processed_never(docs, path) == FALSE

\* lines 237-242
is_pdf_processed(docs, path) == \E j \in DOMAIN docs : docs[j].source = path

\* lines 220-233: the loop over the files in the order of os.listdir.  run
\* holds documents, the cache, all_contents and the files passed to
\* process_single_pdf; a file whose extraction raises leaves the first three
\* as they are (line 232).
RECURSIVE ProcessFiles(_, _)
ProcessFiles(order, run) ==
    IF order = <<>> THEN run
    ELSE LET f == Head(order)
             passed == [run EXCEPT !.handled = run.handled \cup {f}]
         IN  IF is_pdf_processed(run.documents, PdfPath(f))
             THEN ProcessFiles(Tail(order), run)
             ELSE IF ExtractRaises(f)
             THEN ProcessFiles(Tail(order), passed)
             ELSE LET contents == ContentsFrom(f, 0)
                      docs == run.documents
                              \o [j \in DOMAIN contents |->
                                     StoredDocument(f, contents[j])]
                  IN  ProcessFiles(Tail(order),
                         [passed EXCEPT !.documents = docs,
                                        !.cache = SavedCache(docs),
                                        !.contents = run.contents \o contents])

\* the orders in which os.listdir can give the files of S
ListOrders(S) ==
    {o \in [1..Cardinality(S) -> S] : \A i, j \in DOMAIN o : o[i] = o[j] => i = j}

\* line 210
PdfFilesIn(dir) == {f \in dir.files : IsPdfName(f)}

\* lines 203-235: process_pdf_directory with the listing in the given order
ProcessDirectory(dir, order, docs, cache) ==
    ProcessFiles(IF dir.exists THEN order ELSE <<>>,
                 [documents |-> docs, cache |-> cache, contents |-> <<>>,
                  handled |-> {}])

\* lines 205-206: the directory is made if it is missing
DirAfterRun(dir) == [dir EXCEPT !.exists = TRUE]

\* the documents, the cache, the contents and the index as they are
Snapshot ==
    [documents |-> pdf_documents, cache |-> jsonCache,
     cpp_contents |-> cpp_contents, all_documents |-> all_documents,
     index |-> cppIndex]

\* the history of a call that ran process_pdf_directory
RunHistory(run) ==
    [NoCppLast EXCEPT
        !.returned = run.contents,
        !.handled = run.handled,
        !.again = cppLast.ran.valid /\ cppLast.ran.dir = pdfDir,
        !.before = Snapshot,
        !.ran = [valid |-> TRUE, dir |-> DirAfterRun(pdfDir)]]

\* a file is put into the directory
PutFile(f) ==
    /\ pdfDir.exists
    /\ f \notin pdfDir.files
    /\ pdfDir' = [pdfDir EXCEPT !.files = pdfDir.files \cup {f}]
    /\ UNCHANGED <<cppPc, jsonCache, pdf_documents, cpp_contents,
                   all_documents, cppIndex, cppLast>>
    /\ UNCHANGED <<pipelineVars, gen, other, chunker>>

\* a file is taken out of the directory
RemoveFile(f) ==
    /\ f \in pdfDir.files
    /\ pdfDir' = [pdfDir EXCEPT !.files = pdfDir.files \ {f}]
    /\ UNCHANGED <<cppPc, jsonCache, pdf_documents, cpp_contents,
                   all_documents, cppIndex, cppLast>>
    /\ UNCHANGED <<pipelineVars, gen, other, chunker>>

\* lines 11-18: PDFProcessor() in a new process
PdfConstruct ==
    /\ cppPc = "down"
    /\ cppPc' = "up"
    /\ pdf_documents' = LoadExisting(jsonCache)
    /\ cppLast' = [NoCppLast EXCEPT !.op = "init", !.ran = cppLast.ran]
    /\ UNCHANGED <<pdfDir, jsonCache, cpp_contents, all_documents, cppIndex>>
    /\ UNCHANGED <<pipelineVars, gen, other, chunker>>

\* lines 203-235: a call of process_pdf_directory()
ProcessPdfDirectory(order) ==
    /\ cppPc = "up"
    /\ order \in ListOrders(PdfFilesIn(pdfDir))
    /\ LET run == ProcessDirectory(pdfDir, order, pdf_documents, jsonCache)
       IN  /\ pdf_documents' = run.documents
           /\ jsonCache' = run.cache
           /\ pdfDir' = DirAfterRun(pdfDir)
           /\ cppLast' = [RunHistory(run) EXCEPT !.op = "process"]
    /\ UNCHANGED <<cppPc, cpp_contents, all_documents, cppIndex>>
    /\ UNCHANGED <<pipelineVars, gen, other, chunker>>

\* lines 333-340: a call of clear_documents()
ClearDocuments ==
    /\ cppPc = "up"
    /\ pdf_documents' = <<>>
    /\ jsonCache' = NoCache
    /\ cppLast' = [NoCppLast EXCEPT !.op = "clear"]
    /\ UNCHANGED <<cppPc, pdfDir, cpp_contents, all_documents, cppIndex>>
    /\ UNCHANGED <<pipelineVars, gen, other, chunker>>

\* the process ends: its objects are lost, the files stay
PdfStop ==
    /\ cppPc = "up"
    /\ cppPc' = "down"
    /\ pdf_documents' = <<>>
    /\ cppLast' = [NoCppLast EXCEPT !.ran = cppLast.ran]
    /\ UNCHANGED <<pdfDir, jsonCache, cpp_contents, all_documents, cppIndex>>
    /\ UNCHANGED <<pipelineVars, gen, other, chunker>>

\* no process runs; the directory may exist, and is empty if it does
InitPdf ==
    /\ pc = "idle"
    /\ index = NewIndex(embedding_dim)
    /\ documents = <<>>
    /\ metadata = <<>>
    /\ indexFile = NoFile
    /\ metaFile = NoFile
    /\ call = NoCall
    /\ last = NoSearch
    /\ lastOp = "init"
    /\ faissTies \in {"asc", "desc"}
    /\ lastSaved = NothingSaved
    /\ gen = NoGen
    /\ other = NoThread
    /\ chunker = NoChunking
    /\ cppPc = "down"
    /\ pdfDir \in {NoDir, DirAfterRun(NoDir)}
    /\ jsonCache = NoCache
    /\ pdf_documents = <<>>
    /\ cpp_contents = <<>>
    /\ all_documents = <<>>
    /\ cppIndex = NoCppIndex
    /\ cppLast = NoCppLast

NextPdf ==
    \/ PdfConstruct
    \/ \E order \in ListOrders(PdfFilesIn(pdfDir)) : ProcessPdfDirectory(order)
    \/ ClearDocuments
    \/ PdfStop
    \/ \E f \in PdfFiles : PutFile(f)
    \/ \E f \in PdfFiles : RemoveFile(f)

SpecPdf == InitPdf /\ [][NextPdf]_vars

\* the documents stored for path, in their order
StoredFor(path) ==
    SelectSeq(pdf_documents, LAMBDA doc : doc.source = path)

\* the positions of the documents stored for path
PositionsOf(path) == {j \in DOMAIN pdf_documents : pdf_documents[j].source = path}

----------------------------------------------------------------------------
(* CppRAGSystem (actions.py): process_query *)

\* str.lower() of a character
LowerChar(c) ==
    CASE c = "A" -> "a" [] c = "D" -> "d" [] c = "E" -> "e" [] c = "H" -> "h"
      [] c = "P" -> "p" [] c = "T" -> "t" [] c = "U" -> "u" [] OTHER -> c

\* str.lower()
Lower(s) == [j \in DOMAIN s |-> LowerChar(s[j])]

\* the test of line 160 moved before that of line 148
HandlerOrderListFirst ==
    <<"greeting", "goodbye", "thanks", "help", "list", "concept", "code",
      "explanation", "status", "refresh">>

\* the keyword tests of lines 132-168 in their order
HandlerOrder ==
    <<"greeting", "goodbye", "thanks", "help", "concept", "code",
      "explanation", "list", "status", "refresh">>

\* the words of the tests of lines 132, 136, 140, 144, 148, 152, 156, 160, 164
\* and 168
Keywords(group) ==
    CASE group = "greeting" ->
             {<<"h", "e", "l", "l", "o">>,
              <<"h", "i">>,
              <<"h", "e", "y">>,
              <<"g", "r", "e", "e", "t", "i", "n", "g", "s">>}
      [] group = "goodbye" ->
             {<<"b", "y", "e">>,
              <<"g", "o", "o", "d", "b", "y", "e">>,
              <<"s", "e", "e", " ", "y", "o", "u">>,
              <<"e", "x", "i", "t">>,
              <<"q", "u", "i", "t">>}
      [] group = "thanks" ->
             {<<"t", "h", "a", "n", "k", "s">>,
              <<"t", "h", "a", "n", "k", " ", "y", "o", "u">>,
              <<"t", "h", "a", "n", "k">>}
      [] group = "help" ->
             {<<"h", "e", "l", "p">>,
              <<"w", "h", "a", "t", " ", "c", "a", "n", " ", "y", "o", "u", " ", "d", "o">>,
              <<"a", "b", "i", "l", "i", "t", "i", "e", "s">>}
      [] group = "concept" ->
             {<<"c", "l", "a", "s", "s">>,
              <<"t", "e", "m", "p", "l", "a", "t", "e">>,
              <<"i", "n", "h", "e", "r", "i", "t", "a", "n", "c", "e">>,
              <<"p", "o", "i", "n", "t", "e", "r">>,
              <<"m", "e", "m", "o", "r", "y">>,
              <<"s", "t", "l">>,
              <<"f", "u", "n", "c", "t", "i", "o", "n">>,
              <<"o", "p", "e", "r", "a", "t", "o", "r">>}
      [] group = "code" ->
             {<<"c", "o", "d", "e">>,
              <<"e", "x", "a", "m", "p", "l", "e">>,
              <<"i", "m", "p", "l", "e", "m", "e", "n", "t">>,
              <<"s", "y", "n", "t", "a", "x">>,
              <<"p", "r", "o", "g", "r", "a", "m">>}
      [] group = "explanation" ->
             {<<"e", "x", "p", "l", "a", "i", "n">>,
              <<"h", "o", "w">>,
              <<"w", "h", "y">>,
              <<"w", "o", "r", "k">>,
              <<"w", "h", "a", "t", " ", "i", "s">>}
      [] group = "list" ->
             {<<"l", "i", "s", "t">>,
              <<"s", "h", "o", "w">>,
              <<"a", "l", "l", " ", "c", "o", "n", "c", "e", "p", "t", "s">>,
              <<"a", "v", "a", "i", "l", "a", "b", "l", "e">>,
              <<"t", "o", "p", "i", "c", "s">>}
      [] group = "status" ->
             {<<"s", "t", "a", "t", "u", "s">>,
              <<"h", "o", "w", " ", "m", "a", "n", "y">>,
              <<"s", "t", "a", "t", "i", "s", "t", "i", "c", "s">>}
      [] group = "refresh" ->
             {<<"r", "e", "f", "r", "e", "s", "h">>,
              <<"r", "e", "l", "o", "a", "d">>,
              <<"u", "p", "d", "a", "t", "e">>}

\* any(word in input_lower for word in [...])
AnyWordIn(group, input_lower) ==
    \E word \in Keywords(group) : Contains(input_lower, word)

\* lines 131-172: the tests from the j-th on; the default is the semantic
\* search
RECURSIVE RouteFrom(_, _)
RouteFrom(input_lower, j) ==
    IF j > Len(HandlerOrder) THEN "search"
    ELSE IF AnyWordIn(HandlerOrder[j], input_lower) THEN HandlerOrder[j]
    ELSE RouteFrom(input_lower, j + 1)

\* lines 126-172: the handler process_query calls; an input that is empty
\* after strip() gets the welcome message of the greeting (lines 128-129)
Route(user_input) ==
    LET input_lower == Strip(Lower(user_input))
    IN  IF input_lower = <<>> THEN "greeting" ELSE RouteFrom(input_lower, 1)

\* the inputs given to process_query
UserInputs ==
    {<<>>,
     <<" ", " ">>,
     <<"H", "e", "l", "l", "o">>,
     <<"t", "h", "i", "s">>,
     <<"b", "y", "e">>,
     <<"t", "h", "a", "n", "k", "s">>,
     <<"h", "e", "l", "p">>,
     <<"c", "l", "a", "s", "s">>,
     <<"s", "h", "o", "w", " ", "c", "l", "a", "s", "s">>,
     <<"c", "o", "d", "e">>,
     <<"e", "x", "p", "l", "a", "i", "n">>,
     <<"l", "i", "s", "t">>,
     <<"s", "t", "a", "t", "u", "s">>,
     <<"U", "P", "D", "A", "T", "E", " ">>,
     <<"x", "y", "z">>,
     <<"e", "x", "i", "t", " ", "c", "o", "d", "e">>,
     <<"h", "o", "w", " ", "m", "a", "n", "y">>,
     <<"r", "e", "f", "r", "e", "s", "h">>}

----------------------------------------------------------------------------
(* CppRAGSystem (actions.py): its contents, its index and its search *)

\* largest top_k passed to semantic_search
MaxTopK == 4

\* line 296 of pdf_processor.py: longer contents are cut to this and "..."
max_description_chars == 600

\* lines 294-307 of pdf_processor.py: the content made of a document
CppContent(doc) ==
    [file_name |-> doc.file_name, chars |-> doc.chars,
     description_chars |-> IF doc.chars > max_description_chars
                           THEN max_description_chars + 3 ELSE doc.chars]

\* lines 290-308 of pdf_processor.py: get_cpp_contents
GetCppContents(docs) == [j \in DOMAIN docs |-> CppContent(docs[j])]

\* lines 69-77: the text that is embedded; it has the description and not
\* the file name or the whole content
TextRepresentation(content) ==
    [description_chars |-> content.description_chars]

\* a build that leaves out the last content
BuildAllDocumentsButLast(contents) ==
    [j \in 1..(Len(contents) - 1) |->
        [content |-> TextRepresentation(contents[j]),
         cpp_content |-> contents[j]]]

\* lines 65-82
BuildAllDocuments(contents) ==
    [j \in DOMAIN contents |->
        [content |-> TextRepresentation(contents[j]),
         cpp_content |-> contents[j]]]

\* the direction of the embedding of a text (encode is deterministic)
EncodeText(text) ==
    IF text.description_chars > max_description_chars THEN 1 ELSE 0

\* the direction of the embedding of a query (encode is deterministic)
EncodeInput(query) == Len(query) % 2

\* lines 84-98
BuildIndex(docs) ==
    IF docs = <<>> THEN NoCppIndex
    ELSE [none |-> FALSE, d |-> embedding_dim,
          xb |-> [j \in DOMAIN docs |-> EncodeText(docs[j].content)]]

\* a list[idx] of Python for a list of n elements, as a position from 1:
\* a negative idx counts from the end
PyIndex(idx, n) == IF idx < 0 THEN n + idx + 1 ELSE idx + 1

\* line 116
HitKept(hit, docs) == hit.idx < Len(docs)

\* lines 114-120: the loop over the answer of the index; pos is the label
\* the index gave (not a key of the code's dict)
RECURSIVE ResultsFrom(_, _, _)
ResultsFrom(hits, i, docs) ==
    IF i > Len(hits) THEN <<>>
    ELSE IF HitKept(hits[i], docs)
         THEN <<[cpp_content |-> docs[PyIndex(hits[i].idx, Len(docs))].cpp_content,
                 score |-> hits[i].score,
                 pos |-> hits[i].idx]>>
              \o ResultsFrom(hits, i + 1, docs)
         ELSE ResultsFrom(hits, i + 1, docs)

\* lines 102-122: semantic_search
semantic_search(query, top_k) ==
    IF cppIndex.none THEN <<>>
    ELSE ResultsFrom(IndexSearch(cppIndex, EncodeInput(query), top_k,
                                 faissTies),
                     1, all_documents)

\* the handlers that ran, the top_k of the last search and its results:
\* lines 228-232 (concept, which hands over to the semantic search when it
\* finds nothing), 258-262, 306-310 and 394-398
HandlerOutcome(handler, query) ==
    IF handler \in {"concept", "code", "explanation"}
    THEN LET results == semantic_search(query, 1)
         IN  IF handler = "concept" /\ results = <<>>
             THEN [handlers |-> <<"concept", "search">>, top_k |-> 3,
                   results |-> semantic_search(query, 3)]
             ELSE [handlers |-> <<handler>>, top_k |-> 1, results |-> results]
    ELSE IF handler = "search"
    THEN [handlers |-> <<"search">>, top_k |-> 3,
          results |-> semantic_search(query, 3)]
    ELSE [handlers |-> <<handler>>, top_k |-> 0, results |-> <<>>]

\* lines 19-28 and 413-414: a process starts and CppRAGSystem() is made:
\* PDFProcessor(), load_cpp_contents, build_vector_index
CppConstruct(order) ==
    /\ cppPc = "down"
    /\ order \in ListOrders(PdfFilesIn(pdfDir))
    /\ cppPc' = "up"
    /\ LET run == ProcessDirectory(pdfDir, order, LoadExisting(jsonCache),
                                   jsonCache)
           contents == GetCppContents(run.documents)
       IN  /\ pdf_documents' = run.documents
           /\ jsonCache' = run.cache
           /\ pdfDir' = DirAfterRun(pdfDir)
           /\ cpp_contents' = contents
           /\ all_documents' = BuildAllDocuments(contents)
           /\ cppIndex' = BuildIndex(BuildAllDocuments(contents))
           /\ cppLast' = [RunHistory(run) EXCEPT
                             !.op = "init",
                             !.before = [Snapshot EXCEPT
                                 !.documents = LoadExisting(jsonCache)]]
    /\ UNCHANGED <<pipelineVars, gen, other, chunker>>

\* lines 384-392: _refresh_pdfs
RefreshPdfs(user_input, order) ==
    LET run == ProcessDirectory(pdfDir, order, <<>>, NoCache)
        contents == GetCppContents(run.documents)
    IN  /\ pdf_documents' = run.documents
        /\ jsonCache' = run.cache
        /\ pdfDir' = DirAfterRun(pdfDir)
        /\ cpp_contents' = contents
        /\ all_documents' = BuildAllDocuments(contents)
        /\ cppIndex' = BuildIndex(BuildAllDocuments(contents))
        /\ cppLast' = [RunHistory(run) EXCEPT
                          !.op = "query", !.input = user_input,
                          !.handlers = <<"refresh">>, !.again = FALSE]

\* the listings that matter to a call of process_query: those of the
\* directory if it refreshes, else none
OrdersFor(user_input) ==
    IF Route(user_input) = "refresh" THEN ListOrders(PdfFilesIn(pdfDir))
    ELSE {<<>>}

\* lines 124-172: a call of process_query
ProcessQuery(user_input, order) ==
    /\ cppPc = "up"
    /\ IF Route(user_input) = "refresh"
       THEN RefreshPdfs(user_input, order)
       ELSE LET outcome == HandlerOutcome(Route(user_input), user_input)
            IN  /\ cppLast' = [NoCppLast EXCEPT
                                  !.op = "query", !.input = user_input,
                                  !.handlers = outcome.handlers,
                                  !.top_k = outcome.top_k,
                                  !.results = outcome.results,
                                  !.before = Snapshot,
                                  !.ran = cppLast.ran]
                /\ UNCHANGED <<pdfDir, jsonCache, pdf_documents, cpp_contents,
                               all_documents, cppIndex>>
    /\ UNCHANGED cppPc
    /\ UNCHANGED <<pipelineVars, gen, other, chunker>>

\* the queries passed to semantic_search by a caller other than process_query
SearchInputs == {<<"x">>, <<"x", "y">>}

\* lines 102-122: a call of semantic_search
SemanticSearch(query, top_k) ==
    /\ cppPc = "up"
    /\ cppLast' = [NoCppLast EXCEPT
                      !.op = "search", !.input = query, !.top_k = top_k,
                      !.results = semantic_search(query, top_k),
                      !.before = Snapshot,
                      !.ran = cppLast.ran]
    /\ UNCHANGED <<cppPc, pdfDir, jsonCache, pdf_documents, cpp_contents,
                   all_documents, cppIndex>>
    /\ UNCHANGED <<pipelineVars, gen, other, chunker>>

\* the process ends: its objects are lost, the files stay
CppStop ==
    /\ cppPc = "up"
    /\ cppPc' = "down"
    /\ pdf_documents' = <<>>
    /\ cpp_contents' = <<>>
    /\ all_documents' = <<>>
    /\ cppIndex' = NoCppIndex
    /\ cppLast' = [NoCppLast EXCEPT !.ran = cppLast.ran]
    /\ UNCHANGED <<pdfDir, jsonCache>>
    /\ UNCHANGED <<pipelineVars, gen, other, chunker>>

\* the files put into the directory while the assistant is in use
CppFiles == {"a.pdf", "B.PDF", "s.pdf"}

NextCpp ==
    \/ \E order \in ListOrders(PdfFilesIn(pdfDir)) : CppConstruct(order)
    \/ \E user_input \in UserInputs :
          \E order \in OrdersFor(user_input) : ProcessQuery(user_input, order)
    \/ \E query \in SearchInputs, top_k \in 1..MaxTopK :
          SemanticSearch(query, top_k)
    \/ CppStop
    \/ \E f \in CppFiles : PutFile(f)
    \/ \E f \in CppFiles : RemoveFile(f)

SpecCpp == InitPdf /\ [][NextCpp]_vars


----------------------------------------------------------------------------
(* Claims about the assistant *)

\* a semantic_search has returned, called by a handler or by another caller
Searched == cppPc = "up" /\ cppLast.op \in {"query", "search"} /\ cppLast.top_k > 0

\* C27: semantic_search over N documents returns at most min(top_k, N)
\* results, each for another position in 0..N-1 that the index gave as a
\* match, and no result when there is no index.
C27_SearchClampedToStored ==
    Searched =>
        /\ Len(cppLast.results) <= Min(cppLast.top_k, Len(all_documents))
        /\ \A j \in DOMAIN cppLast.results :
              /\ 0 <= cppLast.results[j].pos
              /\ cppLast.results[j].pos < Len(all_documents)
        /\ \A i, j \in DOMAIN cppLast.results :
              cppLast.results[i].pos = cppLast.results[j].pos => i = j
        /\ cppIndex.none => cppLast.results = <<>>


GroupOrder ==
    <<"greeting", "goodbye", "thanks", "help", "concept", "code",
      "explanation", "list", "status", "refresh">>

\* a keyword of the group occurs in the text
GroupMatches(group, text) ==
    \E word \in Keywords(group) : Occurrences(text, word) # {}

\* the first group of the order with a keyword in the text, "search" if
\* there is none
FirstMatching(text) ==
    LET M == {j \in DOMAIN GroupOrder : GroupMatches(GroupOrder[j], text)}
    IN  IF M = {} THEN "search"
        ELSE GroupOrder[CHOOSE j \in M : \A m \in M : j <= m]

\* the last call was one of process_query
QueryAnswered == cppPc = "up" /\ cppLast.op = "query"

\* the input of the call as process_query tests it
TestedInput == Strip(Lower(cppLast.input))

\* a call that has not run the refresh handler has left the documents, the
\* contents, the index and the cache as they were
OnlyRefreshWrites ==
    cppLast.handlers # <<"refresh">> => Snapshot = cppLast.before

\* C29 as stated: process_query runs exactly one handler, that of the first
\* keyword group in the order with a keyword in the input, the semantic
\* search if there is none; and a call that has not run the refresh handler
\* changes nothing.
C29_OneHandlerFirstMatch ==
    QueryAnswered =>
        /\ cppLast.handlers = <<FirstMatching(TestedInput)>>
        /\ OnlyRefreshWrites

\* C29: an input that is empty after stripping gets the welcome message of
\* the greeting; any other input goes to the handler of the first keyword
\* group in the order with a keyword in the lower-cased input, the semantic
\* search if there is none, and that is the only handler that runs, except
\* that the concept handler hands over to the semantic search when there is
\* no index; and a call that has not run the refresh handler changes nothing.
C29_FirstMatchUnlessEmpty ==
    QueryAnswered =>
        /\ cppLast.handlers =
              IF TestedInput = <<>> THEN <<"greeting">>
              ELSE IF FirstMatching(TestedInput) = "concept" /\ cppIndex.none
              THEN <<"concept", "search">>
              ELSE <<FirstMatching(TestedInput)>>
        /\ OnlyRefreshWrites

\* C29 witness: "show class" has keywords of the concept, the explanation
\* and the list group, was answered by the concept handler over three
\* documents, and nothing was written
C29_Witness ==
    /\ cppPc = "up"
    /\ cppLast.op = "query"
    /\ cppLast.input = <<"s", "h", "o", "w", " ", "c", "l", "a", "s", "s">>
    /\ GroupMatches("list", cppLast.input)
    /\ GroupMatches("explanation", cppLast.input)
    /\ cppLast.handlers = <<"concept">>
    /\ Len(cppLast.results) = 1
    /\ Len(all_documents) = 3
    /\ Snapshot = cppLast.before

====
